---- MODULE Spec2Model ----
(***************************************************************************)
(* Model of cairo-foundry's compilation cache (src/compile/cache/mod.rs)   *)
(* and of the test command (src/cli/commands/test/mod.rs): the cache       *)
(* decision get_cache, compile_and_list_entrypoints, the per-entrypoint    *)
(* execution test_single_entrypoint with its output buffer, the per-file   *)
(* aggregation run_tests_for_one_file and the batch TestArgs::exec.        *)
(*                                                                         *)
(* Files on disk are JSON objects, modelled as records whose DOMAIN is the *)
(* set of field names; serde's serialisation and deserialisation are       *)
(* modelled field by field.                                                *)
(***************************************************************************)
EXTENDS Integers, Sequences, FiniteSets, TLC

VARIABLES
  content,        \* source file -> its bytes
  records,        \* cache-record path -> JSON object on disk, or NoFile
  artifacts,      \* compiled path -> compiled program on disk, or NoFile
  cache,          \* the value returned by the last get_cache call
  call,           \* history: what the last get_cache call was given and found
  mutations,      \* number of edits of source files so far
  pc,             \* position of the running command
  runs,           \* number of exec calls started
  exit,           \* how the last exec ended
  fileIdx,        \* exec: index of the file being processed
  cur,            \* the tuple handed to run_tests_for_one_file
  entryIdx,       \* run_tests_for_one_file: index of the entrypoint
  results,        \* run_tests_for_one_file: TestResults collected so far
  vmres,          \* history: what cairo_run returned for each collected result
  reads,          \* history: what runner.get_output returned for each collected result
  execution_uuid, \* test_single_entrypoint: the id of this execution
  uuids,          \* number of ids generated in this process
  output,         \* test_single_entrypoint: the log being built
  registry,       \* hints::output_buffer: id -> buffer
  hooked,         \* number of hook appends in the current execution
  report,         \* exec: what was printed for each file, in order
  race,           \* racing processes: process -> its position and what it holds
  path_call       \* the last call of create_compiled_contract_path(file, root)

vars == <<content, records, artifacts, cache, call, mutations, pc, runs,
          exit, fileIdx, cur, entryIdx, results, vmres, reads, execution_uuid,
          uuids, output, registry, hooked, report, race, path_call>>

runVars == <<runs, exit, fileIdx, cur, entryIdx, results, vmres, reads, execution_uuid,
             uuids, output, registry, hooked, report>>

(***************************************************************************)
(* Bounds of the model.                                                    *)
(***************************************************************************)
MaxRuns == 2
MaxMutations == 1
MaxHookAppends == 1

\* The bytes a source file may hold
Contents == {"v1", "v2"}
InitialContent == "v1"

(***************************************************************************)
(* Paths.  A path is [dir, stem, ext]: the directory components, the file  *)
(* stem and the extension.                                                 *)
(***************************************************************************)
Path(dir, stem, ext) == [dir |-> dir, stem |-> stem, ext |-> ext]
NoPath == Path(<<>>, "", "")

FileA == Path(<<"root", "a">>, "t", "cairo")
FileB == Path(<<"root", "b">>, "t", "cairo")
FileC == Path(<<"root", "a">>, "u", "cairo")

\* io::test_files::list_test_files(root): the files in discovery order
ListedFiles == <<FileA, FileB, FileC>>
Files == {ListedFiles[i] : i \in 1..Len(ListedFiles)}

\* A file that is not a cairo source, which get_cache may be called with
NotCairo == Path(<<"root", "a">>, "t", "txt")
Sources == Files \cup {NotCairo}

cache_dir == <<"cache">>
CAIRO_FOUNDRY_CACHE_DIR == "cairo-foundry-cache"
CAIRO_FOUNDRY_COMPILED_CONTRACT_DIR == "compiled-cairo-files"

file_stem(p) == p.stem

\* is_valid_cairo_contract(contract_path): Ok(()) or the error
is_valid_cairo_contract(contract_path) ==
  IF contract_path.ext = "cairo" THEN "Ok" ELSE "InvalidContractExtension"

\* get_cache, lines 187-201: cache_dir/cairo-foundry-cache/<stem>.json
cache_path_of(path_to_code) ==
  Path(cache_dir \o <<CAIRO_FOUNDRY_CACHE_DIR>>, file_stem(path_to_code), "json")

create_compiled_contract_path(path_to_code) ==
  Path(cache_dir \o <<CAIRO_FOUNDRY_COMPILED_CONTRACT_DIR>>,
       file_stem(path_to_code), "json")

RecordPaths == {cache_path_of(f) : f \in Files}
CompiledPaths == {create_compiled_contract_path(f) : f \in Files}

(***************************************************************************)
(* test::cache::create_compiled_contract_path(path_to_contract_file, root).*)
(* A directory is the sequence of its components; <<"/">> is the root of   *)
(* the file system and <<>> the empty path.                                *)
(***************************************************************************)
\* Path::parent: None for the empty path and for the file system's root
parent(dir) ==
  IF dir = <<>> \/ dir = <<"/">>
  THEN [some |-> FALSE, dir |-> <<>>]
  ELSE [some |-> TRUE, dir |-> SubSeq(dir, 1, Len(dir) - 1)]

\* Path::strip_prefix(base): the path relative to base, or StripPrefixError
strip_prefix(p, base) ==
  IF Len(base) <= Len(p.dir) /\ SubSeq(p.dir, 1, Len(base)) = base
  THEN [ok |-> TRUE, path |-> Path(SubSeq(p.dir, Len(base) + 1, Len(p.dir)), p.stem, p.ext)]
  ELSE [ok |-> FALSE, path |-> NoPath]

\* PathBuf::set_extension
set_extension(p, ext) == Path(p.dir, p.stem, ext)

PathResult(ok, path, err) == [ok |-> ok, path |-> path, err |-> err]

\* Mutant: the path is taken relative to root, not to the parent of root
cache_create_compiled_contract_path_in_root(path_to_contract_file, root, cacheDirOk) ==
  LET relative_path == strip_prefix(path_to_contract_file, root)
  IN  IF ~cacheDirOk THEN PathResult(FALSE, NoPath, "CacheDirSupported")
      ELSE IF ~relative_path.ok THEN PathResult(FALSE, NoPath, "StripPrefixError")
      ELSE PathResult(TRUE,
                      set_extension(Path(cache_dir \o <<"compiled-cairo-files">>
                                           \o relative_path.path.dir,
                                         relative_path.path.stem, relative_path.path.ext),
                                    "json"),
                      "none")

\* create_compiled_contract_path of src/cli/commands/test/cache.rs.
\* cacheDirOk: dirs::cache_dir() returns a directory
cache_create_compiled_contract_path(path_to_contract_file, root, cacheDirOk) ==
  LET root_parent == parent(root)
      relative_path == strip_prefix(path_to_contract_file, root_parent.dir)
  IN  IF ~cacheDirOk THEN PathResult(FALSE, NoPath, "CacheDirSupported")
      ELSE IF ~root_parent.some THEN PathResult(FALSE, NoPath, "CacheDirSupported")
      ELSE IF ~relative_path.ok THEN PathResult(FALSE, NoPath, "StripPrefixError")
      ELSE PathResult(TRUE,
                      set_extension(Path(cache_dir \o <<"compiled-cairo-files">>
                                           \o relative_path.path.dir,
                                         relative_path.path.stem, relative_path.path.ext),
                                    "json"),
                      "none")

\* The arguments the function is called with
FileInputs ==
  {Path(<<"root", "a">>, "t", "cairo"), Path(<<"root", "a">>, "n", ""),
   Path(<<"w", "root", "a">>, "u", "cairo"), Path(<<"w", "other">>, "t", "cairo")}
RootInputs == {<<"root">>, <<"w", "root">>, <<"root", "a">>, <<>>}

\* A call and its result; prev: the call before it
PathCall(file, root, ret, prev) == [file |-> file, root |-> root, ret |-> ret, prev |-> prev]
NoPathCall ==
  PathCall(NoPath, <<>>, PathResult(FALSE, NoPath, "none"),
           [file |-> NoPath, root |-> <<>>, ret |-> PathResult(FALSE, NoPath, "none")])

(***************************************************************************)
(* Files on disk.                                                          *)
(***************************************************************************)
NoFile == [absent |-> TRUE]
Garbage == [garbage |-> TRUE]
NoHash == <<"sha256", "">>

\* Sha256 of the file's bytes, printed as hex
compute_hash(bytes) == <<"sha256", bytes>>

\* serde::Serialize of struct CacheJson { contract_path, sha256 }
Serialize_CacheJson(data) ==
  [contract_path |-> data.contract_path, sha256 |-> data.sha256]

\* serde::Serialize of struct Cache { path, sha256 }
Serialize_Cache(data) == [path |-> data.path, sha256 |-> data.sha256]

\* serde::Deserialize of struct Cache { path, sha256 }: both fields required,
\* unknown fields ignored
Deserialize_Cache(json) ==
  IF {"path", "sha256"} \subseteq DOMAIN json
  THEN [ok |-> TRUE, path |-> json.path, sha256 |-> json.sha256]
  ELSE [ok |-> FALSE, path |-> NoPath, sha256 |-> NoHash]

\* read_cache: read_to_string, then serde_json::from_str::<Cache>
read_cache(recs, path) ==
  IF recs[path] = NoFile
  THEN [ok |-> FALSE, path |-> NoPath, sha256 |-> NoHash]
  ELSE Deserialize_Cache(recs[path])

\* Mutant of dump_json_file: the record file is left as it was
dump_json_file_noop(recs, path, data, writeOk) ==
  [ok |-> writeOk, records |-> recs]

\* Mutant of dump_json_file: the record is written in the format read_cache
\* reads
dump_json_file_as_Cache(recs, path, data, writeOk) ==
  IF writeOk
  THEN [ok |-> TRUE,
        records |-> [recs EXCEPT ![path] =
                       Serialize_Cache([path |-> data.contract_path,
                                        sha256 |-> data.sha256])]]
  ELSE [ok |-> FALSE, records |-> recs]

\* Mutant of dump_json_file: the record is written without the hash
dump_json_file_no_hash(recs, path, data, writeOk) ==
  IF writeOk
  THEN [ok |-> TRUE,
        records |-> [recs EXCEPT ![path] =
                       Serialize_CacheJson([contract_path |-> data.contract_path,
                                            sha256 |-> NoHash])]]
  ELSE [ok |-> FALSE, records |-> recs]

\* dump_json_file: File::create, then serde_json::to_writer_pretty
dump_json_file(recs, path, data, writeOk) ==
  IF writeOk
  THEN [ok |-> TRUE, records |-> [recs EXCEPT ![path] = Serialize_CacheJson(data)]]
  ELSE [ok |-> FALSE, records |-> recs]

(***************************************************************************)
(* The cache decision.                                                     *)
(***************************************************************************)
Decision(ok, path, status) == [ok |-> ok, path |-> path, status |-> status]
NoDecision == Decision(FALSE, NoPath, "none")

\* get_cache(path_to_code).  dirOk: the platform cache directory exists or can
\* be created; hashOk: the source file can be read; writeOk: the record file
\* can be written.  panic names the expect/unwrap that aborted, or "none".
get_cache(path_to_code, bytes, recs, dirOk, hashOk, writeOk) ==
  LET cache_path == cache_path_of(path_to_code)
      data == read_cache(recs, cache_path)
      hash_calculated == compute_hash(bytes)
      fresh == [contract_path |-> path_to_code, sha256 |-> hash_calculated]
      dumped == dump_json_file(recs, cache_path, fresh, writeOk)
      uncached == [panic |-> "none", records |-> dumped.records,
                   ret |-> IF dumped.ok
                           THEN Decision(TRUE, path_to_code, "Uncached")
                           ELSE Decision(FALSE, NoPath, "Err")]
  IN  IF ~dirOk
      THEN [panic |-> "cache_dir", records |-> recs, ret |-> NoDecision]
      ELSE IF ~hashOk
      THEN [panic |-> "compute_hash", records |-> recs, ret |-> NoDecision]
      ELSE IF data.ok
      THEN IF data.sha256 = hash_calculated
           THEN [panic |-> "none", records |-> recs,
                 ret |-> Decision(TRUE, create_compiled_contract_path(path_to_code),
                                  "Cached")]
           ELSE uncached
      ELSE uncached

(***************************************************************************)
(* Compilation and entrypoint listing.                                     *)
(***************************************************************************)
\* A compiled program on disk: the source it was compiled from and the bytes
\* of that source at the time.
Program(src, bytes) == [src |-> src, bytes |-> bytes]

\* The test entrypoints of the program compiled from each source file
TestEntrypoints(src) ==
  IF src = FileA THEN <<"test_1", "test_2">>
  ELSE IF src = FileB THEN <<"test_1">>
  ELSE <<>>

\* compile::compile(path): writes the compiled program and returns its path
compile(arts, path_to_code, bytes, compileOk) ==
  LET compiled_path == create_compiled_contract_path(path_to_code)
  IN  IF compileOk
      THEN [ok |-> TRUE, path |-> compiled_path,
            artifacts |-> [arts EXCEPT ![compiled_path] = Program(path_to_code, bytes)]]
      ELSE [ok |-> FALSE, path |-> NoPath, artifacts |-> arts]

\* io::compiled_programs::list_test_entrypoints(compiled_path)
list_test_entrypoints(arts, compiled_path, listOk) ==
  IF compiled_path \notin DOMAIN arts \/ arts[compiled_path] = NoFile \/ ~listOk
  THEN [ok |-> FALSE, names |-> <<>>]
  ELSE [ok |-> TRUE, names |-> TestEntrypoints(arts[compiled_path].src)]

Listed(original, compiled, entrypoints) ==
  [some |-> TRUE, path_to_original |-> original, path_to_compiled |-> compiled,
   test_entrypoints |-> entrypoints]
None == [some |-> FALSE, path_to_original |-> NoPath, path_to_compiled |-> NoPath,
         test_entrypoints |-> <<>>]

\* compile_and_list_entrypoints(cache).  bytes: the bytes of the source file
\* cache.path names when the status is Uncached.  compiler: "none" when the
\* compiler was not invoked, else "ok" or "failed"; lister likewise.
compile_and_list_entrypoints(c, arts, bytes, compileOk, listOk) ==
  IF ~c.ok
  THEN [panic |-> "none", ret |-> None, artifacts |-> arts,
        compiler |-> "none", lister |-> "none"]
  ELSE IF c.status = "Cached"
  THEN LET entrypoints == list_test_entrypoints(arts, c.path, listOk)
       IN  IF entrypoints.ok
           THEN [panic |-> "none", ret |-> Listed(c.path, c.path, entrypoints.names),
                 artifacts |-> arts, compiler |-> "none", lister |-> "ok"]
           ELSE [panic |-> "list_test_entrypoints", ret |-> None, artifacts |-> arts,
                 compiler |-> "none", lister |-> "failed"]
  ELSE LET compiled == compile(arts, c.path, bytes, compileOk)
           entrypoints == list_test_entrypoints(compiled.artifacts, compiled.path, listOk)
       IN  IF ~compiled.ok
           THEN [panic |-> "compile", ret |-> None, artifacts |-> arts,
                 compiler |-> "failed", lister |-> "none"]
           ELSE IF entrypoints.ok
           THEN [panic |-> "none", ret |-> Listed(c.path, compiled.path, entrypoints.names),
                 artifacts |-> compiled.artifacts, compiler |-> "ok", lister |-> "ok"]
           ELSE [panic |-> "list_test_entrypoints", ret |-> None,
                 artifacts |-> compiled.artifacts, compiler |-> "ok", lister |-> "failed"]

(***************************************************************************)
(* The execution buffer registry (hints::output_buffer): a set of entries  *)
(* [id, buffer], at most one per id.                                       *)
(***************************************************************************)
Entry(id, buffer) == [id |-> id, buffer |-> buffer]
Live(reg) == {e.id : e \in reg}

init_buffer(reg, id) == {e \in reg : e.id # id} \cup {Entry(id, <<>>)}

\* get_buffer(id): Some(buffer) or None
get_buffer(reg, id) ==
  IF id \in Live(reg)
  THEN [some |-> TRUE, buffer |-> (CHOOSE e \in reg : e.id = id).buffer]
  ELSE [some |-> FALSE, buffer |-> <<>>]

clear_buffer(reg, id) == {e \in reg : e.id # id}

\* What a hook does with the id cairo_run was given: append text to its buffer
append_buffer(reg, id, text) ==
  {IF e.id = id THEN Entry(id, Append(e.buffer, text)) ELSE e : e \in reg}

\* Uuid::new_v4(): an id no earlier call of this process returned
new_v4(generated) == generated + 1

(***************************************************************************)
(* Results of the VM and of the runner's output read.                      *)
(***************************************************************************)
EXPECT_REVERT_FLAG == "expect_revert"

VmResult(ok, variant, msg) == [ok |-> ok, variant |-> variant, msg |-> msg]
VmOk == VmResult(TRUE, "", "")
CustomHint(msg) == VmResult(FALSE, "VirtualMachine::CustomHint", msg)
VmResults ==
  {VmOk, CustomHint("skip"), CustomHint(EXPECT_REVERT_FLAG), CustomHint("assert failed"),
   VmResult(FALSE, "VirtualMachine::Other", "step limit")}

RunnerOutput(ok, text) == [ok |-> ok, text |-> text]
\* The output of the runner was not asked for
NotRead == RunnerOutput(FALSE, <<"not read">>)
RunnerOutputs ==
  {RunnerOutput(TRUE, <<>>), RunnerOutput(TRUE, <<"out">>), RunnerOutput(FALSE, <<>>)}

(***************************************************************************)
(* The log of one execution: a sequence of items, one per push to output.  *)
(***************************************************************************)
LogItem(kind, name, detail, text) ==
  [kind |-> kind, name |-> name, detail |-> detail, text |-> text]

ExpectRevertDiagnostic ==
  <<"Error: execution did not revert while expect_revert() was specified">>
\* "Error: {:?}" of the VM error
VmDiagnostic(e) == <<"Error: ", e.variant, e.msg>>

TestResult(out, success) == [output |-> out, success |-> success]

\* Mutant of classify: the arm of the skip signal is missing
classify_no_skip(res, test_entrypoint) ==
  IF res.ok
  THEN [runner |-> TRUE, success |-> "SUCCESS",
        item |-> LogItem("OK", test_entrypoint, <<"duration">>, <<>>)]
  ELSE IF res.variant = "VirtualMachine::CustomHint" /\ res.msg = EXPECT_REVERT_FLAG
  THEN [runner |-> FALSE, success |-> "FAILURE",
        item |-> LogItem("FAILED", test_entrypoint, ExpectRevertDiagnostic, <<>>)]
  ELSE [runner |-> FALSE, success |-> "FAILURE",
        item |-> LogItem("FAILED", test_entrypoint, VmDiagnostic(res), <<>>)]

\* Mutant of classify: the arm of the expect-revert flag is missing
classify_no_revert(res, test_entrypoint) ==
  IF res.ok
  THEN [runner |-> TRUE, success |-> "SUCCESS",
        item |-> LogItem("OK", test_entrypoint, <<"duration">>, <<>>)]
  ELSE IF res.variant = "VirtualMachine::CustomHint" /\ res.msg = "skip"
  THEN [runner |-> FALSE, success |-> "SUCCESS",
        item |-> LogItem("SKIPPED", test_entrypoint, <<>>, <<>>)]
  ELSE [runner |-> FALSE, success |-> "FAILURE",
        item |-> LogItem("FAILED", test_entrypoint, VmDiagnostic(res), <<>>)]

\* Mutant of classify: the catch-all arm prints the expect-revert diagnostic
\* in place of the error
classify_drop_error(res, test_entrypoint) ==
  IF res.ok
  THEN [runner |-> TRUE, success |-> "SUCCESS",
        item |-> LogItem("OK", test_entrypoint, <<"duration">>, <<>>)]
  ELSE IF res.variant = "VirtualMachine::CustomHint" /\ res.msg = "skip"
  THEN [runner |-> FALSE, success |-> "SUCCESS",
        item |-> LogItem("SKIPPED", test_entrypoint, <<>>, <<>>)]
  ELSE [runner |-> FALSE, success |-> "FAILURE",
        item |-> LogItem("FAILED", test_entrypoint, ExpectRevertDiagnostic, <<>>)]

\* The match on res_cairo_run (lines 289-324)
classify(res, test_entrypoint) ==
  IF res.ok
  THEN [runner |-> TRUE, success |-> "SUCCESS",
        item |-> LogItem("OK", test_entrypoint, <<"duration">>, <<>>)]
  ELSE IF res.variant = "VirtualMachine::CustomHint" /\ res.msg = "skip"
  THEN [runner |-> FALSE, success |-> "SUCCESS",
        item |-> LogItem("SKIPPED", test_entrypoint, <<>>, <<>>)]
  ELSE IF res.variant = "VirtualMachine::CustomHint" /\ res.msg = EXPECT_REVERT_FLAG
  THEN [runner |-> FALSE, success |-> "FAILURE",
        item |-> LogItem("FAILED", test_entrypoint, ExpectRevertDiagnostic, <<>>)]
  ELSE [runner |-> FALSE, success |-> "FAILURE",
        item |-> LogItem("FAILED", test_entrypoint, VmDiagnostic(res), <<>>)]

\* The text of every buffer of ids 1..n, oldest first
RECURSIVE AllBuffers(_, _)
AllBuffers(reg, n) ==
  IF n = 0 THEN <<>>
  ELSE AllBuffers(reg, n - 1) \o get_buffer(reg, n).buffer

\* Mutant of purge_hint_buffer: the registry is used as one process-wide
\* buffer that is drained whole and never cleared
purge_hint_buffer_global(reg, uuid, out) ==
  LET buffer == AllBuffers(reg, uuid)
  IN  [panic |-> FALSE,
       output |-> IF buffer # <<>>
                  THEN Append(out, LogItem("captured stdout", "", <<>>, buffer))
                  ELSE out,
       registry |-> reg]

\* Mutant of purge_hint_buffer: the captured-output section is added whether
\* or not the buffer holds text, and the buffer is left in the registry
purge_hint_buffer_always(reg, uuid, out) ==
  LET buffer == get_buffer(reg, uuid)
  IN  IF ~buffer.some
      THEN [panic |-> TRUE, output |-> out, registry |-> reg]
      ELSE [panic |-> FALSE,
            output |-> Append(out, LogItem("captured stdout", "", <<>>, buffer.buffer)),
            registry |-> reg]

\* purge_hint_buffer(execution_uuid, output)
purge_hint_buffer(reg, uuid, out) ==
  LET buffer == get_buffer(reg, uuid)
  IN  IF ~buffer.some
      THEN [panic |-> TRUE, output |-> out, registry |-> reg]
      ELSE [panic |-> FALSE,
            output |-> IF buffer.buffer # <<>>
                       THEN Append(out, LogItem("captured stdout", "", <<>>, buffer.buffer))
                       ELSE out,
            registry |-> clear_buffer(reg, uuid)]

\* Mutant of test_single_entrypoint_end: a failed read of the runner's output
\* fails the test
test_single_entrypoint_end_strict(res, runner_output, test_entrypoint, reg, uuid, out) ==
  LET c == classify(res, test_entrypoint)
      purged == purge_hint_buffer(reg, uuid, Append(out, c.item))
      shown == IF runner_output.text # <<>>
               THEN Append(purged.output,
                           LogItem("execution output", "", <<>>, runner_output.text))
               ELSE purged.output
  IN  [panic |-> purged.panic,
       registry |-> purged.registry,
       read_output |-> c.runner /\ ~purged.panic,
       ret |-> IF c.runner /\ runner_output.ok
               THEN TestResult(Append(shown, LogItem("newline", "", <<>>, <<>>)), c.success)
               ELSE IF c.runner
               THEN TestResult(Append(purged.output,
                                      LogItem("FAILED", test_entrypoint, <<>>, <<>>)),
                               "FAILURE")
               ELSE TestResult(purged.output, c.success)]

\* test_single_entrypoint from the return of cairo_run to its own return
\* (lines 287-347)
test_single_entrypoint_end(res, runner_output, test_entrypoint, reg, uuid, out) ==
  LET c == classify(res, test_entrypoint)
      purged == purge_hint_buffer(reg, uuid, Append(out, c.item))
      shown == IF runner_output.ok /\ runner_output.text # <<>>
               THEN Append(purged.output,
                           LogItem("execution output", "", <<>>, runner_output.text))
               ELSE purged.output
  IN  [panic |-> purged.panic,
       registry |-> purged.registry,
       read_output |-> c.runner /\ ~purged.panic,
       ret |-> IF c.runner
               THEN TestResult(Append(shown, LogItem("newline", "", <<>>, <<>>)), c.success)
               ELSE TestResult(purged.output, c.success)]

\* Mutant of fold: the status of the last result replaces the accumulated one
RECURSIVE fold_last(_, _)
fold_last(rs, a) ==
  IF rs = <<>> THEN a
  ELSE LET b == Head(rs)
       IN  fold_last(Tail(rs), TestResult(a.output \o b.output, b.success))

\* The fold of run_tests_for_one_file (lines 381-390) over the collected results
RECURSIVE fold(_, _)
fold(rs, a) ==
  IF rs = <<>> THEN a
  ELSE LET b == Head(rs)
       IN  fold(Tail(rs),
                TestResult(a.output \o b.output,
                           IF a.success = "SUCCESS" /\ b.success = "SUCCESS"
                           THEN "SUCCESS" ELSE "FAILURE"))

Header(path_to_original) == LogItem("Running tests in file", "", <<>>, <<path_to_original>>)

\* What exec prints for one file: Ok(result) with the folded status, or
\* Err(err) with the error.  listed: the number of entrypoints of the file;
\* executed: how many of them test_single_entrypoint was called for;
\* outcomes: the status of each TestResult folded into the result.
Printed(path, kind, err, success, outcomes, executed, listed) ==
  [path |-> path, kind |-> kind, err |-> err, success |-> success,
   outcomes |-> outcomes, executed |-> executed, listed |-> listed]

(***************************************************************************)
(* History of the cache decisions.  call: what the last get_cache call was *)
(* given (file, bytes), what it found at the record path (prior), what it  *)
(* returned (status), whether it was a Stale decision that directly        *)
(* followed a completed Cached decision for the same file on other bytes   *)
(* (flipped), what compile_and_list_entrypoints then did (compiler,        *)
(* lister), and the same summary of the call before it (prev).             *)
(***************************************************************************)
Summary(f, status, bytes, path, flipped, compiler, lister) ==
  [file |-> f, status |-> status, bytes |-> bytes, path |-> path, flipped |-> flipped,
   compiler |-> compiler, lister |-> lister]
NoSummary == Summary(NoPath, "none", "", NoPath, FALSE, "none", "none")

SummaryOf(c) ==
  Summary(c.file, c.status, c.bytes, c.path, c.flipped, c.compiler, c.lister)

CallEntry(f, bytes, prior, ret, prev) ==
  [file |-> f, bytes |-> bytes, prior |-> prior, status |-> ret.status,
   path |-> ret.path,
   flipped |-> /\ ret.status = "Uncached"
               /\ prev.file = f
               /\ prev.status = "Cached"
               /\ prev.lister = "ok"
               /\ prev.bytes # bytes,
   compiler |-> "none", lister |-> "none", prev |-> prev]
NoCall ==
  [file |-> NoPath, bytes |-> "", prior |-> NoFile, status |-> "none", path |-> NoPath,
   flipped |-> FALSE, compiler |-> "none", lister |-> "none", prev |-> NoSummary]

(***************************************************************************)
(* Two processes that each call compile_and_list_entrypoints(get_cache(f)) *)
(* for the same file, sharing the cache directory.  A process is at        *)
(* "get_cache" (before read_cache), "create" (before File::create of the   *)
(* record), "write" (before the record is written), "compile" (before      *)
(* compile_and_list_entrypoints) or "done".                                *)
(***************************************************************************)
Procs == {"p1", "p2"}
RaceFile == FileA

\* prior: the record read; ret: the decision; pending: the record to write
Proc(at, prior, ret, pending, compiler, panic) ==
  [at |-> at, prior |-> prior, ret |-> ret, pending |-> pending,
   compiler |-> compiler, panic |-> panic]
NoRace == [p \in Procs |-> Proc("idle", NoFile, NoDecision, NoFile, "none", "none")]

\* File::create has truncated the file and nothing is written yet
EmptyFile == [empty |-> TRUE]

\* get_cache would not return Cached for f
Stale(f) ==
  LET data == read_cache(records, cache_path_of(f))
  IN  ~data.ok \/ data.sha256 # compute_hash(content[f])

(***************************************************************************)
(* Initial state: source files hold their initial bytes; the cache         *)
(* directory is whatever an earlier invocation left: no record, an         *)
(* unparseable record, or a record in the format read_cache reads (struct  *)
(* Cache), and likewise compiled programs.                                 *)
(***************************************************************************)
InitialRecords(p) ==
  {NoFile, Garbage} \cup
  {Serialize_Cache([path |-> f, sha256 |-> compute_hash(InitialContent)]) :
     f \in {g \in Files : cache_path_of(g) = p}}

InitialArtifacts(p) ==
  {NoFile} \cup
  {Program(f, InitialContent) : f \in {g \in Files : create_compiled_contract_path(g) = p}}

Init ==
  /\ content = [f \in Sources |-> InitialContent]
  /\ records \in {r \in [RecordPaths -> UNION {InitialRecords(p) : p \in RecordPaths}] :
                    \A p \in RecordPaths : r[p] \in InitialRecords(p)}
  /\ artifacts \in {a \in [CompiledPaths -> UNION {InitialArtifacts(p) : p \in CompiledPaths}] :
                    \A p \in CompiledPaths : a[p] \in InitialArtifacts(p)}
  /\ cache = NoDecision
  /\ call = NoCall
  /\ mutations = 0
  /\ pc = "idle"
  /\ runs = 0
  /\ exit = "none"
  /\ fileIdx = 0
  /\ cur = None
  /\ entryIdx = 0
  /\ results = <<>>
  /\ vmres = <<>>
  /\ reads = <<>>
  /\ execution_uuid = 0
  /\ uuids = 0
  /\ output = <<>>
  /\ registry = {}
  /\ hooked = 0
  /\ report = <<>>
  /\ race = NoRace
  /\ path_call = NoPathCall

(***************************************************************************)
(* The environment edits a source file between two invocations.            *)
(***************************************************************************)
Mutate ==
  /\ UNCHANGED <<race, path_call>>
  /\ pc = "idle"
  /\ mutations < MaxMutations
  /\ \E f \in Files, b \in Contents :
       /\ b # content[f]
       /\ content' = [content EXCEPT ![f] = b]
  /\ mutations' = mutations + 1
  /\ UNCHANGED <<records, artifacts, cache, call, pc>>
  /\ UNCHANGED runVars

(***************************************************************************)
(* One get_cache call for file f, with its bookkeeping.  The inputs are    *)
(* what the environment answers; an answer the call never asks for (the    *)
(* write after a panic) is fixed to TRUE.                                  *)
(***************************************************************************)
GetCacheInputs ==
  {in \in [dirOk : BOOLEAN, hashOk : BOOLEAN, writeOk : BOOLEAN] :
     /\ ~in.dirOk => in.hashOk /\ in.writeOk
     /\ ~in.hashOk => in.writeOk}

GetCacheFor(f, dirOk, hashOk, writeOk) ==
  LET r == get_cache(f, content[f], records, dirOk, hashOk, writeOk)
  IN  /\ records' = r.records
      /\ cache' = r.ret
      /\ call' = IF r.panic = "none"
                 THEN CallEntry(f, content[f], records[cache_path_of(f)], r.ret,
                                SummaryOf(call))
                 ELSE call
      /\ exit' = r.panic

\* The answers of the compiler and of the entrypoint lister; the lister is not
\* asked when the compiler failed
CompileInputs ==
  {in \in [compileOk : BOOLEAN, listOk : BOOLEAN] : ~in.compileOk => in.listOk}

\* compile_and_list_entrypoints(cache) for the decision just made
CompileAndListFor(compileOk, listOk) ==
  compile_and_list_entrypoints(cache, artifacts, content[call.file], compileOk, listOk)

(***************************************************************************)
(* The cache store driven directly, as tests.rs run_single_test does:      *)
(* compile_and_list_entrypoints(get_cache(path)).                          *)
(***************************************************************************)
GetCacheCall ==
  /\ UNCHANGED <<race, path_call>>
  /\ pc = "idle"
  /\ runs = 0
  /\ \E f \in Sources, in \in GetCacheInputs :
       /\ GetCacheFor(f, in.dirOk, in.hashOk, in.writeOk)
       /\ pc' = IF in.dirOk /\ in.hashOk THEN "got_cache" ELSE "idle"
  /\ UNCHANGED <<content, artifacts, mutations>>
  /\ UNCHANGED <<runs, fileIdx, cur, entryIdx, results, vmres, reads, execution_uuid, uuids,
                 output, registry, hooked, report>>

CompileAndListCall ==
  /\ UNCHANGED <<race, path_call>>
  /\ pc = "got_cache"
  /\ \E in \in CompileInputs :
       LET r == CompileAndListFor(in.compileOk, in.listOk)
       IN  /\ artifacts' = r.artifacts
           /\ cur' = r.ret
           /\ call' = [call EXCEPT !.compiler = r.compiler, !.lister = r.lister]
           /\ exit' = r.panic
  /\ pc' = "idle"
  /\ UNCHANGED <<content, records, cache, mutations>>
  /\ UNCHANGED <<runs, fileIdx, entryIdx, results, vmres, reads, execution_uuid, uuids,
                 output, registry, hooked, report>>

(***************************************************************************)
(* TestArgs::exec: for each listed file in turn, read_cache, then          *)
(* compile_and_list_entrypoints, then run_tests_for_one_file, then print.  *)
(* The iterator chain is lazy, so each file goes through the whole chain   *)
(* before the next one is read.  A panic ends the process.                 *)
(***************************************************************************)
\* The chain moves on to the next file, or exec returns Ok
NextFile ==
  IF fileIdx < Len(ListedFiles)
  THEN /\ fileIdx' = fileIdx + 1
       /\ pc' = "read_cache"
       /\ exit' = "none"
  ELSE /\ fileIdx' = fileIdx
       /\ pc' = "idle"
       /\ exit' = "Ok"

Panic(what) ==
  /\ pc' = "idle"
  /\ exit' = what
  /\ fileIdx' = fileIdx

Exec ==
  /\ UNCHANGED <<race, path_call>>
  /\ pc = "idle"
  /\ runs < MaxRuns
  /\ runs' = runs + 1
  /\ \E listOk \in BOOLEAN :
       IF listOk /\ ListedFiles # <<>>
       THEN /\ pc' = "read_cache"
            /\ exit' = "none"
            /\ fileIdx' = 1
       ELSE /\ pc' = "idle"
            /\ exit' = IF listOk THEN "Ok" ELSE "Err_list_test_files"
            /\ fileIdx' = 0
  /\ cache' = NoDecision
  /\ call' = NoCall
  /\ cur' = None
  /\ entryIdx' = 0
  /\ results' = <<>>
  /\ vmres' = <<>>
  /\ reads' = <<>>
  /\ execution_uuid' = 0
  /\ uuids' = 0
  /\ output' = <<>>
  /\ registry' = {}
  /\ hooked' = 0
  /\ report' = <<>>
  /\ UNCHANGED <<content, records, artifacts, mutations>>

ReadCache ==
  /\ UNCHANGED <<race, path_call>>
  /\ pc = "read_cache"
  /\ \E in \in GetCacheInputs :
       /\ GetCacheFor(ListedFiles[fileIdx], in.dirOk, in.hashOk, in.writeOk)
       /\ pc' = IF in.dirOk /\ in.hashOk THEN "compile_and_list_entrypoints" ELSE "idle"
  /\ UNCHANGED <<content, artifacts, mutations>>
  /\ UNCHANGED <<runs, fileIdx, cur, entryIdx, results, vmres, reads, execution_uuid, uuids,
                 output, registry, hooked, report>>

CompileAndList ==
  /\ UNCHANGED <<race, path_call>>
  /\ pc = "compile_and_list_entrypoints"
  /\ \E in \in CompileInputs :
       LET r == CompileAndListFor(in.compileOk, in.listOk)
       IN  /\ artifacts' = r.artifacts
           /\ cur' = r.ret
           /\ call' = [call EXCEPT !.compiler = r.compiler, !.lister = r.lister]
           /\ IF r.panic # "none" THEN Panic(r.panic)
              ELSE IF r.ret.some
              THEN /\ pc' = "run_tests_for_one_file"
                   /\ exit' = "none"
                   /\ fileIdx' = fileIdx
              ELSE NextFile
  /\ UNCHANGED <<content, records, cache, mutations>>
  /\ UNCHANGED <<runs, entryIdx, results, vmres, reads, execution_uuid, uuids,
                 output, registry, hooked, report>>

\* run_tests_for_one_file returns: exec prints the result or the error
FileDone(printed) ==
  /\ report' = Append(report, printed)
  /\ NextFile

FileResult(rs) ==
  LET res == fold(rs, TestResult(<<Header(cur.path_to_original)>>, "SUCCESS"))
  IN  Printed(cur.path_to_original, "Ok", "none", res.success,
              [i \in 1..Len(rs) |-> rs[i].success], Len(rs), Len(cur.test_entrypoints))

FileError(err, executed) ==
  Printed(cur.path_to_original, "Err", err, "none", <<>>, executed,
          Len(cur.test_entrypoints))

\* run_tests_for_one_file up to the first entrypoint (lines 363-367)
RunTestsBegin ==
  /\ UNCHANGED <<race, path_call>>
  /\ pc = "run_tests_for_one_file"
  /\ results' = <<>>
  /\ vmres' = <<>>
  /\ reads' = <<>>
  /\ \E deserOk \in BOOLEAN :
       IF artifacts[cur.path_to_compiled] = NoFile
       THEN /\ Panic("open_compiled")
            /\ UNCHANGED <<entryIdx, report>>
       ELSE IF ~deserOk
       THEN /\ FileDone(FileError("deserialize_program_json", 0))
            /\ UNCHANGED entryIdx
       ELSE /\ entryIdx' = 1
            /\ pc' = IF cur.test_entrypoints = <<>> THEN "fold"
                     ELSE "test_single_entrypoint"
            /\ UNCHANGED <<exit, fileIdx, report>>
  /\ UNCHANGED <<content, records, artifacts, cache, call, mutations>>
  /\ UNCHANGED <<runs, cur, execution_uuid, uuids, output, registry, hooked>>

\* test_single_entrypoint up to the call of cairo_run (lines 280-285)
TestBegin ==
  /\ UNCHANGED <<race, path_call>>
  /\ pc = "test_single_entrypoint"
  /\ output' = <<>>
  /\ execution_uuid' = new_v4(uuids)
  /\ uuids' = uuids + 1
  /\ registry' = init_buffer(registry, execution_uuid')
  /\ hooked' = 0
  /\ \E fromJsonOk \in BOOLEAN :
       IF fromJsonOk
       THEN /\ pc' = "cairo_run"
            /\ UNCHANGED <<exit, fileIdx, report, results, vmres, reads>>
       ELSE /\ FileDone(FileError("Program::from_json", entryIdx))
            /\ results' = <<>>
            /\ vmres' = <<>>
            /\ reads' = <<>>
  /\ UNCHANGED <<content, records, artifacts, cache, call, mutations>>
  /\ UNCHANGED <<runs, cur, entryIdx>>

\* What the hooks of an execution write: text naming the execution
HookText == [file |-> fileIdx, entry |-> entryIdx]

\* A hook of the running VM appends to the buffer of the id cairo_run was given
HookAppend ==
  /\ UNCHANGED <<race, path_call>>
  /\ pc = "cairo_run"
  /\ hooked < MaxHookAppends
  /\ hooked' = hooked + 1
  /\ registry' = append_buffer(registry, execution_uuid, HookText)
  /\ UNCHANGED <<content, records, artifacts, cache, call, mutations, pc>>
  /\ UNCHANGED <<runs, exit, fileIdx, cur, entryIdx, results, vmres, reads, execution_uuid,
                 uuids, output, report>>

\* cairo_run returns and test_single_entrypoint runs to its return; the map of
\* run_tests_for_one_file goes on to the next entrypoint, or the collect ends
TestEnd ==
  /\ UNCHANGED <<race, path_call>>
  /\ pc = "cairo_run"
  /\ \E res \in VmResults, runner_output \in RunnerOutputs :
       LET r == test_single_entrypoint_end(res, runner_output,
                                           cur.test_entrypoints[entryIdx],
                                           registry, execution_uuid, output)
       IN  /\ (~res.ok => runner_output = RunnerOutput(TRUE, <<>>))
           /\ registry' = r.registry
           /\ IF r.panic
              THEN /\ Panic("get_buffer")
                   /\ UNCHANGED <<results, vmres, reads, entryIdx>>
              ELSE /\ results' = Append(results, r.ret)
                   /\ vmres' = Append(vmres, res)
                   /\ reads' = Append(reads, IF r.read_output THEN runner_output ELSE NotRead)
                   /\ UNCHANGED <<exit, fileIdx>>
                   /\ IF entryIdx < Len(cur.test_entrypoints)
                      THEN /\ entryIdx' = entryIdx + 1
                           /\ pc' = "test_single_entrypoint"
                      ELSE /\ entryIdx' = entryIdx
                           /\ pc' = "fold"
  /\ output' = <<>>
  /\ hooked' = 0
  /\ UNCHANGED <<content, records, artifacts, cache, call, mutations>>
  /\ UNCHANGED <<runs, cur, execution_uuid, uuids, report>>

\* run_tests_for_one_file folds the collected results (lines 379-391) and
\* exec prints the file's result
Fold ==
  /\ UNCHANGED <<race, path_call>>
  /\ pc = "fold"
  /\ FileDone(FileResult(results))
  /\ results' = <<>>
  /\ vmres' = <<>>
  /\ reads' = <<>>
  /\ UNCHANGED <<content, records, artifacts, cache, call, mutations>>
  /\ UNCHANGED <<runs, cur, entryIdx, execution_uuid, uuids, output, registry, hooked>>

(***************************************************************************)
(* The steps of the racing processes.                                      *)
(***************************************************************************)
RaceFrame ==
  /\ UNCHANGED path_call
  /\ UNCHANGED <<content, cache, call, mutations>>
  /\ UNCHANGED runVars

\* Two processes are started on a file whose record is stale
RaceBegin ==
  /\ pc = "idle"
  /\ runs = 0
  /\ Stale(RaceFile)
  /\ pc' = "race"
  /\ race' = [p \in Procs |-> Proc("get_cache", NoFile, NoDecision, NoFile, "none", "none")]
  /\ UNCHANGED <<records, artifacts>>
  /\ RaceFrame

\* get_cache up to the match on data (lines 187-208): the record is read and
\* the decision is made
RaceGetCache(p) ==
  /\ pc = "race"
  /\ race[p].at = "get_cache"
  /\ LET cache_path == cache_path_of(RaceFile)
         r == get_cache(RaceFile, content[RaceFile], records, TRUE, TRUE, TRUE)
     IN  race' = [race EXCEPT ![p] =
                    Proc(IF r.ret.status = "Uncached" THEN "create" ELSE "compile",
                         records[cache_path], r.ret, r.records[cache_path],
                         "none", "none")]
  /\ UNCHANGED <<records, artifacts, pc>>
  /\ RaceFrame

\* dump_json_file, File::create (line 177)
RaceCreate(p) ==
  /\ pc = "race"
  /\ race[p].at = "create"
  /\ records' = [records EXCEPT ![cache_path_of(RaceFile)] = EmptyFile]
  /\ race' = [race EXCEPT ![p].at = "write"]
  /\ UNCHANGED <<artifacts, pc>>
  /\ RaceFrame

\* dump_json_file, serde_json::to_writer_pretty (lines 178-180), and the
\* return of get_cache
RaceWrite(p) ==
  /\ pc = "race"
  /\ race[p].at = "write"
  /\ records' = [records EXCEPT ![cache_path_of(RaceFile)] = race[p].pending]
  /\ race' = [race EXCEPT ![p].at = "compile"]
  /\ UNCHANGED <<artifacts, pc>>
  /\ RaceFrame

\* compile_and_list_entrypoints for the decision the process holds
RaceCompile(p) ==
  /\ pc = "race"
  /\ race[p].at = "compile"
  /\ LET r == compile_and_list_entrypoints(race[p].ret, artifacts, content[RaceFile],
                                            TRUE, TRUE)
     IN  /\ artifacts' = r.artifacts
         /\ race' = [race EXCEPT ![p].at = "done", ![p].compiler = r.compiler,
                                 ![p].panic = r.panic]
  /\ UNCHANGED <<records, pc>>
  /\ RaceFrame

\* Both processes have ended
RaceEnd ==
  /\ pc = "race"
  /\ \A p \in Procs : race[p].at = "done"
  /\ pc' = "idle"
  /\ race' = NoRace
  /\ UNCHANGED <<records, artifacts>>
  /\ RaceFrame

NextRace ==
  \/ Mutate
  \/ RaceBegin
  \/ \E p \in Procs : RaceGetCache(p)
  \/ \E p \in Procs : RaceCreate(p)
  \/ \E p \in Procs : RaceWrite(p)
  \/ \E p \in Procs : RaceCompile(p)
  \/ RaceEnd

SpecRace == Init /\ [][NextRace]_vars

(***************************************************************************)
(* create_compiled_contract_path(file, root) called on its own, as         *)
(* tests.rs test_create_compiled_contract_path_positive_0 does.            *)
(***************************************************************************)
CreateCompiledContractPathCall ==
  /\ pc = "idle"
  /\ runs = 0
  /\ \E file \in FileInputs, root \in RootInputs, cacheDirOk \in BOOLEAN :
       path_call' =
         PathCall(file, root, cache_create_compiled_contract_path(file, root, cacheDirOk),
                  [file |-> path_call.file, root |-> path_call.root, ret |-> path_call.ret])
  /\ UNCHANGED <<content, records, artifacts, cache, call, mutations, pc, race>>
  /\ UNCHANGED runVars

NextPath == CreateCompiledContractPathCall

SpecPath == Init /\ [][NextPath]_vars

NextCache == Mutate \/ GetCacheCall \/ CompileAndListCall

SpecCache == Init /\ [][NextCache]_vars

Next ==
  \/ Mutate
  \/ Exec
  \/ ReadCache
  \/ CompileAndList
  \/ RunTestsBegin
  \/ TestBegin
  \/ HookAppend
  \/ TestEnd
  \/ Fold

Spec == Init /\ [][Next]_vars

(***************************************************************************)
(* Properties of the cache store (checked under SpecCache).                *)
(***************************************************************************)
\* A decision was returned by the last get_cache call
Decided == call.status \in {"Cached", "Uncached"}

\* The call before the last one returned a decision, and
\* compile_and_list_entrypoints returned the entrypoints for it
PrevCompleted ==
  /\ call.prev.status \in {"Cached", "Uncached"}
  /\ call.prev.lister = "ok"

\* The last two get_cache calls were for the same file, on the same bytes
SameFileUnchanged ==
  /\ Decided
  /\ PrevCompleted
  /\ call.prev.file = call.file
  /\ call.prev.bytes = call.bytes

\* C1 (idempotence): when a decision for a file directly follows a decision
\* for the same file and the bytes have not changed, it returns Cached, with
\* the same compiled path as the one before if that one was Cached too, and
\* compile_and_list_entrypoints does not invoke the compiler for it.
C1_Idempotence ==
  SameFileUnchanged =>
    /\ call.status = "Cached"
    /\ call.prev.status = "Cached" => call.path = call.prev.path
    /\ call.compiler = "none"

\* C2 (change detection): a decision that directly follows a Cached decision
\* for the same file on different bytes returns Uncached and leaves a record
\* holding the hash of the new bytes; and the decision after that one, the
\* bytes unchanged, is Cached again (the result flips exactly once).
C2_ChangeDetection ==
  /\ ( /\ Decided
       /\ PrevCompleted
       /\ call.prev.file = call.file
       /\ call.prev.status = "Cached"
       /\ call.prev.bytes # call.bytes )
     => /\ call.status = "Uncached"
        /\ "sha256" \in DOMAIN records[cache_path_of(call.file)]
        /\ records[cache_path_of(call.file)].sha256 = compute_hash(call.bytes)
  /\ (SameFileUnchanged /\ call.prev.flipped) => call.status = "Cached"

\* C3 (collision-freedom): a decision for one file never finds at its record
\* path a record that a decision for another file wrote, and two Cached
\* decisions for distinct files never return the same compiled path.
C3_CollisionFree ==
  Decided =>
    /\ "contract_path" \in DOMAIN call.prior => call.prior.contract_path = call.file
    /\ ( /\ call.status = "Cached"
         /\ call.prev.status = "Cached"
         /\ call.prev.file # call.file )
       => call.path # call.prev.path

(***************************************************************************)
(* Properties of the test command (checked under Spec).                    *)
(***************************************************************************)
\* C4 (aggregation law): the status run_tests_for_one_file returns for a file
\* is SUCCESS exactly when every TestResult of the file is SUCCESS; one
\* FAILURE at any position makes it FAILURE.
C4_AggregationLaw ==
  \A i \in DOMAIN report :
    report[i].kind = "Ok" =>
      (report[i].success = "SUCCESS"
         <=> \A j \in DOMAIN report[i].outcomes : report[i].outcomes[j] = "SUCCESS")

\* A file whose first entrypoint failed and whose second succeeded was folded
C4_Witness ==
  \E i \in DOMAIN report :
    /\ report[i].kind = "Ok"
    /\ report[i].outcomes = <<"FAILURE", "SUCCESS">>
    /\ report[i].success = "FAILURE"

\* C5 (fault isolation): the run aborts only on a fatal collaborator error
\* (cache directory unusable, root directory unreadable), and every file that
\* reaches run_tests_for_one_file and can be loaded has test_single_entrypoint
\* called for each of its entrypoints, whatever the earlier ones did.
C5_FaultIsolation ==
  /\ exit \in {"none", "Ok", "cache_dir", "Err_list_test_files"}
  /\ \A i \in DOMAIN report :
       report[i].err # "deserialize_program_json" =>
         report[i].executed = report[i].listed

\* C6 (compiler failure): when the decision is Uncached and the compiler
\* fails, the run does not abort and a Failed result with no entrypoint
\* outcome is reported for the file.
C6_CompileFailureReported ==
  (runs > 0 /\ call.compiler = "failed") =>
    /\ exit # "compile"
    /\ \E i \in DOMAIN report :
         /\ report[i].path = call.file
         /\ report[i].success = "FAILURE"
         /\ report[i].executed = 0

\* C7 (listing failure): when listing the entrypoints of the compiled file
\* fails, for a Cached or a freshly compiled file, the run does not abort and
\* a Failed result with no entrypoint outcome is reported for the file.
C7_ListFailureReported ==
  (runs > 0 /\ call.lister = "failed") =>
    /\ exit # "list_test_entrypoints"
    /\ \E i \in DOMAIN report :
         /\ report[i].path = call.file
         /\ report[i].success = "FAILURE"
         /\ report[i].executed = 0

Kinds(out) == {out[k].kind : k \in DOMAIN out}

\* C8 (skip semantics): an entrypoint for which cairo_run returned
\* CustomHint("skip") gets a SUCCESS TestResult whose log starts with the
\* SKIPPED line of that entrypoint and holds no FAILED line; and a file whose
\* folded status is FAILURE has a FAILURE result that is not a skip.
C8_SkipSemantics ==
  /\ \A i \in DOMAIN results :
       vmres[i] = CustomHint("skip") =>
         /\ results[i].success = "SUCCESS"
         /\ results[i].output[1].kind = "SKIPPED"
         /\ results[i].output[1].name = cur.test_entrypoints[i]
         /\ "FAILED" \notin Kinds(results[i].output)
  /\ (pc = "fold" /\ FileResult(results).success = "FAILURE") =>
       \E i \in DOMAIN results :
         vmres[i] # CustomHint("skip") /\ results[i].success = "FAILURE"

\* A file with a skipped entrypoint is about to be folded to SUCCESS
C8_Witness ==
  /\ pc = "fold"
  /\ \E i \in DOMAIN results : vmres[i] = CustomHint("skip")
  /\ FileResult(results).success = "SUCCESS"

GenericError(res) ==
  /\ ~res.ok
  /\ res # CustomHint("skip")
  /\ res # CustomHint(EXPECT_REVERT_FLAG)

\* C9 (revert expectation): an entrypoint for which cairo_run returned
\* CustomHint(EXPECT_REVERT_FLAG) gets a FAILURE TestResult whose log is the
\* FAILED line with the fixed diagnostic; the FAILED line of any other VM
\* error carries a different diagnostic.
C9_RevertExpectation ==
  \A i \in DOMAIN results :
    /\ vmres[i] = CustomHint(EXPECT_REVERT_FLAG) =>
         /\ results[i].success = "FAILURE"
         /\ results[i].output[1] =
              LogItem("FAILED", cur.test_entrypoints[i], ExpectRevertDiagnostic, <<>>)
    /\ GenericError(vmres[i]) =>
         /\ results[i].success = "FAILURE"
         /\ results[i].output[1].kind = "FAILED"
         /\ results[i].output[1].detail # ExpectRevertDiagnostic

\* One file had an entrypoint end with the expect-revert flag and another
\* with a generic VM error
C9_Witness ==
  /\ \E i \in DOMAIN results : vmres[i] = CustomHint(EXPECT_REVERT_FLAG)
  /\ \E j \in DOMAIN results : GenericError(vmres[j])

\* The captured-output items of a log
Captured(out) == {k \in DOMAIN out : out[k].kind = "captured stdout"}

\* C10 (buffer isolation): the captured-output section of the log of each
\* execution holds only text the hooks appended during that execution, and a
\* buffer of the registry holds only text of the execution in flight.
C10_BufferIsolation ==
  /\ \A i \in DOMAIN results :
       \A k \in Captured(results[i].output) :
         \A t \in DOMAIN results[i].output[k].text :
           results[i].output[k].text[t] = [file |-> fileIdx, entry |-> i]
  /\ \A e \in registry :
       e.buffer # <<>> =>
         /\ pc = "cairo_run"
         /\ e.id = execution_uuid
         /\ \A t \in DOMAIN e.buffer : e.buffer[t] = HookText

\* Two executions of one file both captured text
C10_Witness ==
  /\ Len(results) = 2
  /\ Captured(results[1].output) # {}
  /\ Captured(results[2].output) # {}

\* C11 (registry occupancy): the registry holds at most one entry at any time,
\* and none unless an execution is in flight (between init_buffer and the
\* return of test_single_entrypoint).
C11_RegistryOccupancy ==
  /\ Cardinality(registry) <= 1
  /\ pc # "cairo_run" => registry = {}

\* The record found at the record path does not read back as a Cache
Miss(json) == ~read_cache([p \in {NoPath} |-> json], NoPath).ok

Names(path, f) == path \in {f, create_compiled_contract_path(f)}

\* C13 (ordering and completeness): the i-th result exec prints is about the
\* i-th listed file, a run that returns has printed one result per listed
\* file, and the i-th TestResult collected for a file is the one of its i-th
\* listed entrypoint.
C13_OrderedComplete ==
  /\ \A i \in DOMAIN report : i <= Len(ListedFiles) /\ Names(report[i].path, ListedFiles[i])
  /\ exit = "Ok" => Len(report) = Len(ListedFiles)
  /\ \A i \in DOMAIN results : results[i].output[1].name = cur.test_entrypoints[i]

\* C14 (overall status): exec returns Ok, the successful status of the run,
\* only when every file result it printed is a SUCCESS result.
C14_OverallStatus ==
  exit = "Ok" =>
    \A i \in DOMAIN report : report[i].kind = "Ok" /\ report[i].success = "SUCCESS"

\* The outcome the result of cairo_run must be converted into
Outcome(res) ==
  IF res.ok THEN "Success"
  ELSE IF res = CustomHint("skip") THEN "Skipped"
  ELSE IF res = CustomHint(EXPECT_REVERT_FLAG) THEN "FailedExpectRevert"
  ELSE "FailedError"

\* The outcome a TestResult of entrypoint name shows, "none" if it shows none
\* or more than one
Shown(r, name, e) ==
  LET first == r.output[1]
      is == [Success |-> r.success = "SUCCESS" /\ first.kind = "OK",
             Skipped |-> r.success = "SUCCESS" /\ first.kind = "SKIPPED",
             FailedExpectRevert |-> /\ r.success = "FAILURE"
                                    /\ first.kind = "FAILED"
                                    /\ first.detail = ExpectRevertDiagnostic,
             FailedError |-> /\ r.success = "FAILURE"
                             /\ first.kind = "FAILED"
                             /\ first.detail = VmDiagnostic(e)]
      which == {o \in DOMAIN is : is[o]}
  IN  IF first.name = name /\ Cardinality(which) = 1
         /\ Cardinality({k \in DOMAIN r.output : r.output[k].kind \in
                                                   {"OK", "SKIPPED", "FAILED"}}) = 1
      THEN CHOOSE o \in which : TRUE
      ELSE "none"

\* C15 (total, exclusive classification): every return of cairo_run yields
\* one TestResult, which shows exactly the outcome that return calls for
\* (a generic error with its own diagnostic), and no return of cairo_run ends
\* the run.
C15_TotalClassification ==
  /\ Len(results) = Len(vmres)
  /\ \A i \in DOMAIN results :
       Shown(results[i], cur.test_entrypoints[i], vmres[i]) = Outcome(vmres[i])
  /\ exit # "get_buffer"
  /\ pc = "cairo_run" => Len(results) = entryIdx - 1

\* A file had a normal completion and then a generic VM error
C15_Witness ==
  /\ Len(results) = 2
  /\ Outcome(vmres[1]) = "Success"
  /\ Outcome(vmres[2]) = "FailedError"

\* C16 (best-effort secondary read): runner.get_output is asked for exactly
\* the executions cairo_run completed normally; and when it fails, the
\* TestResult is SUCCESS and its log is the OK line and the captured output,
\* if any, followed by the newline.
C16_BestEffortRead ==
  \A i \in DOMAIN results :
    LET out == results[i].output
    IN  /\ reads[i] # NotRead <=> vmres[i].ok
        /\ ~vmres[i].ok => Kinds(out) \cap {"execution output", "newline"} = {}
        /\ (vmres[i].ok /\ ~reads[i].ok) =>
             /\ results[i].success = "SUCCESS"
             /\ out[1] = LogItem("OK", cur.test_entrypoints[i], <<"duration">>, <<>>)
             /\ out[Len(out)] = LogItem("newline", "", <<>>, <<>>)
             /\ \A k \in 2..(Len(out) - 1) :
                  /\ out[k].kind = "captured stdout"
                  /\ \A t \in DOMAIN out[k].text :
                       out[k].text[t] = [file |-> fileIdx, entry |-> i]
             /\ Len(out) <= 3

\* An execution completed normally, its hooks wrote to the buffer, and the
\* read of the runner's output failed
C16_Witness ==
  \E i \in DOMAIN results :
    /\ vmres[i].ok
    /\ reads[i] = RunnerOutput(FALSE, <<>>)
    /\ Captured(results[i].output) # {}

\* C17 (no retries): cairo_run is called once for each listed entrypoint of
\* each file run_tests_for_one_file loads: the k-th call is for the k-th
\* entrypoint and yields the k-th TestResult, and the result of the file
\* holds one outcome per listed entrypoint.
C17_NoRetries ==
  /\ Len(vmres) = Len(results)
  /\ pc = "cairo_run" => entryIdx = Len(results) + 1
  /\ pc = "fold" => Len(results) = Len(cur.test_entrypoints)
  /\ \A i \in DOMAIN report :
       report[i].err # "deserialize_program_json" =>
         Len(report[i].outcomes) = report[i].listed

\* C18 (invalid extension): a get_cache call for a path whose extension is
\* not "cairo" returns the invalid-extension error, leaves the record at the
\* record path as it found it, and is followed by no compilation.
C18_InvalidExtension ==
  (call.status # "none" /\ is_valid_cairo_contract(call.file) # "Ok") =>
    /\ cache = Decision(FALSE, NoPath, "InvalidContractExtension")
    /\ records[cache_path_of(call.file)] = call.prior
    /\ call.compiler = "none"

UnchangedCached ==
  /\ call.prior = Serialize_CacheJson([contract_path |-> call.file,
                                       sha256 |-> compute_hash(call.bytes)])
  /\ artifacts[create_compiled_contract_path(call.file)] = Program(call.file, call.bytes)

\* C20 (compiler invocations): compile_and_list_entrypoints invokes the
\* compiler for an Uncached decision and does not for a Cached one; and the
\* decision for an unchanged file that was compiled before leads to no
\* compiler invocation.
C20_CompilerInvocations ==
  pc = "compile_and_list_entrypoints" =>
    \A in \in CompileInputs :
      LET r == CompileAndListFor(in.compileOk, in.listOk)
      IN  /\ cache.status = "Uncached" => r.compiler \in {"ok", "failed"}
          /\ cache.status = "Cached" => r.compiler = "none"
          /\ cache.status = "Err" => r.compiler = "none"
          /\ UnchangedCached => r.compiler = "none"

\* The file is below the directory root
Below(file, root) == root # <<>> /\ root # <<"/">> /\ strip_prefix(file, root).ok

C22_RecordRoundTrip ==
  (pc = "got_cache" /\ cache.status = "Uncached") =>
    LET data == read_cache(records, cache_path_of(call.file))
    IN  /\ data.ok
        /\ data.path = call.file
        /\ data.sha256 = compute_hash(call.bytes)

\* C23 (record invariant): when a get_cache call has just returned Ok, the
\* record at the file's record path holds the hash of the file's current
\* bytes, whatever hash it held before.
C23_RecordHoldsHash ==
  (pc = "got_cache" /\ cache.ok) =>
    LET record == records[cache_path_of(call.file)]
    IN  /\ call.bytes = content[call.file]
        /\ "sha256" \in DOMAIN record
        /\ record.sha256 = compute_hash(content[call.file])

\* A get_cache call found a record holding another hash and returned Uncached
C23_Witness ==
  /\ pc = "got_cache"
  /\ cache.status = "Uncached"
  /\ "sha256" \in DOMAIN call.prior
  /\ call.prior.sha256 # compute_hash(content[call.file])

\* C24 (the file result names the source): the tuple handed to
\* run_tests_for_one_file holds the source path of the file being processed
\* and the path of its compiled program, and every result exec prints is
\* under the source path.
C24_ResultNamesSource ==
  /\ pc = "run_tests_for_one_file" =>
       /\ cur.path_to_original = ListedFiles[fileIdx]
       /\ cur.path_to_compiled = create_compiled_contract_path(ListedFiles[fileIdx])
  /\ \A i \in DOMAIN report : report[i].path \in Files

\* C25 (lifecycle of the drain): while cairo_run runs the buffer of the
\* execution is in the registry, so purge_hint_buffer never fails to find it;
\* once test_single_entrypoint has returned a TestResult the buffer is gone;
\* and the log of an execution holds at most one captured-output section,
\* which holds text, directly after the status line and before the runner's
\* output.
C25_DrainLifecycle ==
  /\ exit # "get_buffer"
  /\ pc = "cairo_run" => execution_uuid \in Live(registry)
  /\ (pc \in {"test_single_entrypoint", "fold"} /\ results # <<>>) =>
       execution_uuid \notin Live(registry)
  /\ \A i \in DOMAIN results :
       /\ Captured(results[i].output) \subseteq {2}
       /\ \A k \in Captured(results[i].output) : results[i].output[k].text # <<>>
       /\ \A k \in DOMAIN results[i].output :
            results[i].output[k].kind = "execution output" => k > 1 + Cardinality(Captured(results[i].output))

\* One execution of a file was drained of text and another had written none
C25_Witness ==
  /\ Len(results) = 2
  /\ Captured(results[1].output) = {2}
  /\ Captured(results[2].output) = {}
  /\ "execution output" \in Kinds(results[1].output)

C27_CleanupOnReturn ==
  pc # "cairo_run" => execution_uuid \notin Live(registry)

====
